---- MODULE Spec2Model ----
(***************************************************************************)
(* veendor: the install-resolution engine (lib/install/index.js).          *)
(*                                                                         *)
(* One install call is a chain of promise callbacks.  Every action below   *)
(* is one callback (or one settled external operation) of that chain; the  *)
(* position in the chain is pc[p].  The module-level and closed-over       *)
(* variables of index.js keep their names.  Several processes (Procs) may  *)
(* run an install each, on machines of their own, against the same         *)
(* backends.                                                               *)
(***************************************************************************)
EXTENDS Integers, Sequences, FiniteSets, TLC

\* ---------------------------------------------------------------- bounds
NumBackends == 2       \* length of config.backends
MaxDepth == 1          \* largest config.useGitHistory.depth the caller passes
MaxHistory == 3        \* revisions of package.json older than HEAD
MaxForeignPushes == 2  \* pushes by writers other than the modelled processes
NumProcs == 2          \* install processes of the race specification
MaxLfsCalls == 3       \* calls of the git-lfs backend in one process

Procs == 1..NumProcs
BackendIds == 1..NumBackends

\* ------------------------------------------------------------- manifests
Undefined == [undefined |-> TRUE]

\* PKGJSON is the project's package.json (the manifest of the unit test);
\* olderPkgJson is an older revision of it, with another version of c and a
\* dependency d that PKGJSON has dropped.
PKGJSON ==
    [dependencies |-> [foo |-> "2.2.8", c |-> "2.2.9"],
     devDependencies |-> [baz |-> "6.6.6"]]

olderPkgJson ==
    [dependencies |-> [foo |-> "2.2.8", c |-> "2.1.8", d |-> "0.0.1"],
     devDependencies |-> [baz |-> "6.6.6"]]

ManifestPool == <<PKGJSON, olderPkgJson>>
HashPool == <<"PKGJSONHash", "olderPkgJsonHash">>

Manifests == {ManifestPool[i] : i \in DOMAIN ManifestPool}

\* pkgJsonUtils.calcHash: a digest of the canonical form of the manifest;
\* distinct manifests get distinct digests (the stub of the unit test).
calcHash(pkgJson) ==
    HashPool[CHOOSE i \in DOMAIN ManifestPool : ManifestPool[i] = pkgJson]

Hashes == {calcHash(m) : m \in Manifests}

\* What gitWrapper.olderRevision + parsePkgJson can give for one revision:
\* a manifest, or a rejection (git fails, or the revision does not parse).
BadRevision == [bad |-> TRUE]
RevisionValues == Manifests \cup {BadRevision}

\* ------------------------------------------------------------- the tree
\* node_modules is the set of the parts it is made of; {} is "absent".
PreTree == "pre"        \* the tree that was there before the call
BuiltTree == "built"    \* a tree the native package manager has built
Absent == {}
Bundle(hash) == {hash}  \* the tree a backend serves for a fingerprint
ScratchDir == "scratch" \* the clean cwd made for one backend pull
OriginalCwd == "project"

\* ---------------------------------------------------------------- errors
BundleNotFoundError == "BundleNotFoundError"
BundlesNotFoundError == "BundlesNotFoundError"
BundleAlreadyExistsError == "BundleAlreadyExistsError"
RePullNeeded == "RePullNeeded"
NodeModulesAlreadyExistError == "NodeModulesAlreadyExistError"
PkgJsonNotFoundError == "PkgJsonNotFoundError"
ENOENT == "ENOENT"
BackendError == "BackendError"
NotAGitRepoError == "NotAGitRepoError"
NpmError == "NpmError"
MoveError == "dest already exists"
TypeError == "TypeError"
AssertionError == "AssertionError"
RefAlreadyExistsError == "RefAlreadyExistsError"
GitError == "GitError"
NoError == "none"
NoHash == "undefined"

VARIABLES
    pc,               \* position of each process in the promise chain
    config,           \* the config object each process passes to install
    callerConfig,     \* what that object held when install was called
    force, rePull,    \* arguments of the running install pass
    newPkgJson, newPkgJsonHash, missingBackends, done,   \* install's locals
    rsyncAvailable,   \* module-level flag of index.js
    backendIndex, pullHash, caller,     \* the running pullBackends call
    historyIndex, newHash, oldPkgJson,  \* the running pullOlderBundle call
    depsToInstall, depsToUninstall,     \* the running installDiff call
    pushTodo,         \* backends the running push fanout has yet to push
    error,            \* the rejection being propagated / install's result
    nodeModules, cwd, \* each process's project root
    store,            \* per backend, the fingerprints it holds
    history,          \* revisions of package.json revealed so far
    foreignPushes,    \* pushes done by other writers
    passes, pullCalls, pushLog, nativeLog, walkLog, fsLog, \* observations
    _remoteIsFresh,   \* module-level flag of the git-lfs backend
    repoCloned,       \* the cache directory of the backend holds its repo
    lfsPc,            \* position in the running call of the git-lfs backend
    lfsLog            \* observations of the git-lfs backend

installVars == <<force, rePull, newPkgJson, newPkgJsonHash, missingBackends, done>>
pullVars == <<backendIndex, pullHash, caller>>
walkVars == <<historyIndex, newHash, oldPkgJson>>
diffVars == <<depsToInstall, depsToUninstall>>
envVars == <<store, history, foreignPushes>>
logVars == <<passes, pullCalls, pushLog, nativeLog, walkLog, fsLog>>

lfsVars == <<_remoteIsFresh, repoCloned, lfsPc, lfsLog>>

engineVars == <<pc, config, callerConfig, installVars, rsyncAvailable, pullVars, walkVars,
                diffVars, pushTodo, error, nodeModules, cwd, envVars, logVars>>

vars == <<engineVars, lfsVars>>

Upd(f, p, v) == [f EXCEPT ![p] = v]

\* ------------------------------------------------------- configuration
Descriptor(i, flags) == [alias |-> i, push |-> flags[1], pushMayFail |-> flags[2]]

\* pushMayFail says something only of a backend that is pushed to.
DescriptorFlags == {<<FALSE, FALSE>>, <<TRUE, FALSE>>, <<TRUE, TRUE>>}

BackendChains ==
    {[i \in BackendIds |-> Descriptor(i, f[i])] : f \in [BackendIds -> DescriptorFlags]}

Configs ==
    [backends : BackendChains,
     useGitHistory : [depth : 0..MaxDepth],
     fallbackToNpm : BOOLEAN]

sliceThroughEnd(backends, end) == SubSeq(backends, 1, end + 1)

\* config.backends.slice(0, end)
slice(backends, end) == SubSeq(backends, 1, end)

\* What is observed of a history walk: the depth it was started with, the
\* calls of olderRevision, the chains run for an older hash and those of
\* them that ended in BundlesNotFound, the revisions with an unchanged hash,
\* the revisions that could not be had, the answer of isGitRepo, the chain
\* of the current hash that led to the walk, and the calls of installDiff.
NoWalk ==
    [budget |-> 0, calls |-> 0, attempts |-> 0, missed |-> 0, equal |-> 0,
     failed |-> 0, isGitRepo |-> "unchecked", chain |-> <<>>, diffs |-> <<>>]

\* What is observed of the git-lfs backend: the running call, the calls
\* made, the git fetches and clones run, whether the cache repo was there
\* at the start, the git step that failed and its error, and what the last
\* call settled with.
NoLfsCall(cloned) ==
    [op |-> "none", pulls |-> 0, pushes |-> 0, fetches |-> 0, clones |-> 0,
     cloned0 |-> cloned, failedAt |-> "none", gitError |-> NoError,
     result |-> "none"]

\* The git-lfs backend at the start of a process, its cache repo cloned.
GitLfsUnused ==
    /\ _remoteIsFresh = FALSE
    /\ repoCloned = TRUE
    /\ lfsPc = "idle"
    /\ lfsLog = NoLfsCall(TRUE)

\* The state when install({force, config}) is called by process 1.
InitCommon ==
    /\ rePull = [p \in Procs |-> FALSE]
    /\ newPkgJson = [p \in Procs |-> Undefined]
    /\ newPkgJsonHash = [p \in Procs |-> NoHash]
    /\ missingBackends = [p \in Procs |-> <<>>]
    /\ done = [p \in Procs |-> FALSE]
    /\ rsyncAvailable = [p \in Procs |-> FALSE]
    /\ backendIndex = [p \in Procs |-> 0]
    /\ pullHash = [p \in Procs |-> NoHash]
    /\ caller = [p \in Procs |-> "install"]
    /\ historyIndex = [p \in Procs |-> 0]
    /\ newHash = [p \in Procs |-> NoHash]
    /\ oldPkgJson = [p \in Procs |-> Undefined]
    /\ depsToInstall = [p \in Procs |-> <<>>]
    /\ depsToUninstall = [p \in Procs |-> {}]
    /\ pushTodo = [p \in Procs |-> {}]
    /\ error = [p \in Procs |-> NoError]
    /\ cwd = [p \in Procs |-> OriginalCwd]
    /\ store = [b \in BackendIds |-> {}]
    /\ history = <<>>
    /\ foreignPushes = 0
    /\ passes = [p \in Procs |-> 0]
    /\ pullCalls = [p \in Procs |-> <<>>]
    /\ pushLog = [p \in Procs |-> {}]
    /\ nativeLog = [p \in Procs |-> <<>>]
    /\ walkLog = [p \in Procs |-> NoWalk]

Init ==
    /\ InitCommon
    /\ GitLfsUnused
    /\ pc = [p \in Procs |-> IF p = 1 THEN "install" ELSE "idle"]
    /\ \E c \in Configs : config = [p \in Procs |-> c]
    /\ callerConfig = config
    /\ \E f \in BOOLEAN : force = [p \in Procs |-> f]
    /\ \E tree \in {Absent, {PreTree}} :
        /\ nodeModules = [p \in Procs |-> IF p = 1 THEN tree ELSE Absent]
        /\ fsLog = [p \in Procs |->
                      [nodeModules0 |-> IF p = 1 THEN tree ELSE Absent,
                       pkgRead |-> FALSE, hashed |-> FALSE, removed |-> FALSE,
                       awaited |-> "never"]]

\* ------------------------------------------------------------- install
pinnedHashLost(rePullHash) == NoHash

\* Line 50: newPkgJsonHash = rePullHash.
pinnedHash(rePullHash) == rePullHash

\* install(), lines 34-56: a pass starts.  The second pass takes the pinned
\* hash and skips every check; the first probes rsync.
InstallEnter(p) ==
    /\ pc[p] = "install"
    /\ passes' = Upd(passes, p, passes[p] + 1)
    /\ newPkgJson' = Upd(newPkgJson, p, Undefined)
    /\ missingBackends' = Upd(missingBackends, p, <<>>)
    /\ done' = Upd(done, p, FALSE)
    /\ IF rePull[p]
       THEN /\ pc' = Upd(pc, p, "pullBackends")
            /\ newPkgJsonHash' = Upd(newPkgJsonHash, p, pinnedHash(newPkgJsonHash[p]))
            /\ backendIndex' = Upd(backendIndex, p, 0)
            /\ pullHash' = Upd(pullHash, p, pinnedHash(newPkgJsonHash[p]))
            /\ caller' = Upd(caller, p, "install")
            /\ pullCalls' = Upd(pullCalls, p, <<>>)
            /\ UNCHANGED rsyncAvailable
       ELSE /\ pc' = Upd(pc, p, "checkNodeModules")
            /\ \E res \in BOOLEAN : rsyncAvailable' = Upd(rsyncAvailable, p, res)
            /\ UNCHANGED <<newPkgJsonHash, pullVars, pullCalls>>
    /\ UNCHANGED <<config, force, rePull, walkVars, diffVars,
                   pushTodo, error, nodeModules, cwd, envVars, pushLog,
                   nativeLog, walkLog, fsLog>>
    /\ UNCHANGED <<callerConfig, lfsVars>>

alreadyExistForced(tree, forced) == FALSE

\* Lines 185-191: node_modules is there and force is not set.
alreadyExist(tree, forced) == tree # Absent /\ ~forced

removesNodeModulesNever(tree, useRsync) == FALSE

\* Lines 193-197: an existing node_modules is removed unless rsync is there.
removesNodeModules(tree, useRsync) == tree # Absent /\ ~useRsync

\* checkNodeModules(force), lines 180-199.  The promise fsExtra.remove
\* returns is returned from a then-callback, so the chain adopts it: the
\* removal has completed when checkNodeModules resolves, its value is
\* undefined and clearNodeModulesPromise is never assigned.  fsLog keeps
\* where the completion of the removal was awaited.
CheckNodeModules(p) ==
    /\ pc[p] = "checkNodeModules"
    /\ IF alreadyExist(nodeModules[p], force[p])
       THEN /\ pc' = Upd(pc, p, "catch")
            /\ error' = Upd(error, p, NodeModulesAlreadyExistError)
            /\ UNCHANGED <<nodeModules, fsLog>>
       ELSE /\ pc' = Upd(pc, p, "readPackageFiles")
            /\ IF removesNodeModules(nodeModules[p], rsyncAvailable[p])
               THEN /\ nodeModules' = Upd(nodeModules, p, Absent)
                    /\ fsLog' = Upd(fsLog, p,
                           [fsLog[p] EXCEPT !.removed = TRUE,
                                            !.awaited = "checkNodeModules"])
               ELSE UNCHANGED <<nodeModules, fsLog>>
            /\ UNCHANGED error
    /\ UNCHANGED <<config, installVars, rsyncAvailable, pullVars, walkVars,
                   diffVars, pushTodo, cwd, envVars, passes, pullCalls, pushLog,
                   nativeLog, walkLog>>
    /\ UNCHANGED <<callerConfig, lfsVars>>

\* readPackageFiles + parsePkgJson + calcHash, lines 61-83, then the call
\* of pullBackends at line 88.  package.json may be missing (ENOENT).
ReadPackageFiles(p) ==
    /\ pc[p] = "readPackageFiles"
    /\ \E exists \in BOOLEAN :
        IF ~exists
        THEN /\ pc' = Upd(pc, p, "catch")
             /\ error' = Upd(error, p, ENOENT)
             /\ fsLog' = Upd(fsLog, p, [fsLog[p] EXCEPT !.pkgRead = TRUE])
             /\ UNCHANGED <<newPkgJson, newPkgJsonHash, pullVars, pullCalls>>
        ELSE /\ newPkgJson' = Upd(newPkgJson, p, PKGJSON)
             /\ newPkgJsonHash' = Upd(newPkgJsonHash, p, calcHash(PKGJSON))
             /\ fsLog' = Upd(fsLog, p, [fsLog[p] EXCEPT !.pkgRead = TRUE, !.hashed = TRUE])
             /\ pc' = Upd(pc, p, "pullBackends")
             /\ backendIndex' = Upd(backendIndex, p, 0)
             /\ pullHash' = Upd(pullHash, p, calcHash(PKGJSON))
             /\ caller' = Upd(caller, p, "install")
             /\ pullCalls' = Upd(pullCalls, p, <<>>)
             /\ UNCHANGED error
    /\ UNCHANGED <<config, force, rePull, missingBackends, done, rsyncAvailable,
                   walkVars, diffVars, pushTodo, nodeModules, cwd, envVars,
                   passes, pushLog, nativeLog, walkLog>>
    /\ UNCHANGED <<callerConfig, lfsVars>>

\* -------------------------------------------------------- pullBackends
historyIndexKept(index) == index

\* Line 306: whatever made the revision fail, pullOlderBundle is called
\* again with historyIndex + 1.
historyIndexAfterFailure(index) == index + 1

walkAbortsUnlessNotFound(err) == err # BundlesNotFoundError

\* Line 306: the rejection handler of pullOlderBundle takes no argument;
\* no error of a revision or of its chain ends the walk.
walkAborts(err) == FALSE

\* How a rejection of pullBackends reaches its caller: install's catch at
\* line 93, or the rejection handler of pullOlderBundle at line 306, which
\* recurses with historyIndex + 1 whatever the error is.
PullRejected(p, err) ==
    IF caller[p] = "install"
    THEN /\ pc' = Upd(pc, p, "catch")
         /\ error' = Upd(error, p, err)
         /\ UNCHANGED historyIndex
    ELSE IF walkAborts(err)
    THEN /\ pc' = Upd(pc, p, "catch2")
         /\ error' = Upd(error, p, err)
         /\ UNCHANGED historyIndex
    ELSE /\ pc' = Upd(pc, p, "pullOlderBundle")
         /\ historyIndex' = Upd(historyIndex, p, historyIndexAfterFailure(historyIndex[p]))
         /\ UNCHANGED error

\* pullBackends(hash, config, backendIndex), lines 216-233: reject when the
\* chain is exhausted, else enter a clean cwd and call the backend's pull.
PullBackends(p) ==
    /\ pc[p] = "pullBackends"
    /\ IF backendIndex[p] >= Len(config[p].backends)
       THEN /\ PullRejected(p, BundlesNotFoundError)
            /\ walkLog' = IF caller[p] = "history"
                          THEN Upd(walkLog, p, [walkLog[p] EXCEPT !.missed = @ + 1])
                          ELSE walkLog
            /\ UNCHANGED <<cwd, pullCalls>>
       ELSE /\ cwd' = Upd(cwd, p, ScratchDir)
            /\ pullCalls' = Upd(pullCalls, p,
                   Append(pullCalls[p], [index |-> backendIndex[p],
                                         hash |-> pullHash[p],
                                         result |-> "pending"]))
            /\ pc' = Upd(pc, p, "pull")
            /\ UNCHANGED <<error, historyIndex, walkLog>>
    /\ UNCHANGED <<config, installVars, rsyncAvailable, pullVars, newHash,
                   oldPkgJson, diffVars, pushTodo, nodeModules, envVars, passes,
                   pushLog, nativeLog, fsLog>>
    /\ UNCHANGED <<callerConfig, lfsVars>>

\* What a backend's pull can answer (the backend contract): the bundle when
\* it holds the fingerprint, BundleNotFound when it does not, and at any
\* time some other failure.
PullOutcomes(b, hash) ==
    (IF hash \in store[b] THEN {"ok"} ELSE {BundleNotFoundError}) \cup {BackendError}

SetResult(calls, res) == [calls EXCEPT ![Len(calls)].result = res]

cwdKept(dir) == dir

\* helpers.restoreCWD() in the catch, line 251.
cwdAfterCatch(dir) == OriginalCwd

continuesChainAlways(err) == TRUE

\* Line 253: the next backend is tried after a BundleNotFoundError only.
continuesChain(err) == err = BundleNotFoundError

\* The pull settles, lines 234 and 250-258.  On BundleNotFound the catch
\* restores the cwd and tries the next backend; any other error rejects.
BackendPull(p) ==
    /\ pc[p] = "pull"
    /\ \E res \in PullOutcomes(config[p].backends[backendIndex[p] + 1].alias, pullHash[p]) :
        /\ pullCalls' = Upd(pullCalls, p, SetResult(pullCalls[p], res))
        /\ IF res = "ok"
           THEN /\ pc' = Upd(pc, p, "unpack")
                /\ UNCHANGED <<cwd, backendIndex, error, historyIndex>>
           ELSE /\ cwd' = Upd(cwd, p, cwdAfterCatch(cwd[p]))
                /\ IF continuesChain(res)
                   THEN /\ backendIndex' = Upd(backendIndex, p, backendIndex[p] + 1)
                        /\ pc' = Upd(pc, p, "pullBackends")
                        /\ UNCHANGED <<error, historyIndex>>
                   ELSE /\ PullRejected(p, res)
                        /\ UNCHANGED backendIndex
    /\ UNCHANGED <<config, installVars, rsyncAvailable, pullHash, caller, newHash,
                   oldPkgJson, diffVars, pushTodo, nodeModules, envVars, passes,
                   pushLog, nativeLog, walkLog, fsLog>>
    /\ UNCHANGED <<callerConfig, lfsVars>>

\* rsyncWrapper.syncDirs(from, to): the target becomes the source tree.
syncDirs(from, to) == from

\* fsExtra.move(src, dest) without {overwrite: true} fails when dest exists.
moveFails(dest) == dest # Absent

placeTreeOver(useRsync, tree, dest) == tree \cup dest

\* Lines 240-244: sync the pulled tree into the project root, or move it.
placeTree(useRsync, tree, dest) == IF useRsync THEN syncDirs(tree, dest) ELSE tree

\* Lines 234-249: clearNodeModulesPromise (never assigned) is awaited, the
\* cwd is restored, and the pulled tree is synced or moved into the project
\* root; then pullBackends resolves with the chain's prefix.
Unpack(p) ==
    /\ pc[p] = "unpack"
    /\ cwd' = Upd(cwd, p, OriginalCwd)
    /\ IF ~rsyncAvailable[p] /\ moveFails(nodeModules[p])
       THEN /\ PullRejected(p, MoveError)
            /\ UNCHANGED <<nodeModules, missingBackends, done>>
       ELSE /\ nodeModules' = Upd(nodeModules, p,
                   placeTree(rsyncAvailable[p], Bundle(pullHash[p]), nodeModules[p]))
            /\ IF caller[p] = "install"
               THEN /\ missingBackends' = Upd(missingBackends, p,
                           slice(config[p].backends, backendIndex[p]))
                    /\ done' = Upd(done, p, TRUE)
                    /\ pc' = Upd(pc, p, "then")
               ELSE /\ pc' = Upd(pc, p, "installDiff")
                    /\ UNCHANGED <<missingBackends, done>>
            /\ UNCHANGED <<error, historyIndex>>
    /\ UNCHANGED <<config, force, rePull, newPkgJson, newPkgJsonHash,
                   rsyncAvailable, pullVars, newHash, oldPkgJson, diffVars,
                   pushTodo, envVars, logVars>>
    /\ UNCHANGED <<callerConfig, lfsVars>>

\* ------------------------------------------------------ install's catches
afterChainMissAlwaysWalk(cfg) == "tryOlderBundles"

afterChainMissAlwaysNpm(cfg) ==
    IF cfg.useGitHistory.depth > 0 THEN "tryOlderBundles" ELSE "npmInstallAll"

\* Lines 95-108: where install goes when the chain missed the current hash.
afterChainMiss(cfg) ==
    IF cfg.useGitHistory.depth > 0 THEN "tryOlderBundles"
    ELSE IF cfg.fallbackToNpm = TRUE THEN "npmInstallAll"
    ELSE "rejected"

rethrownAsIs(err) == err

\* Lines 109-113: what the catch throws for an error that is not
\* BundlesNotFoundError.
rethrown(err) == IF err = ENOENT THEN PkgJsonNotFoundError ELSE err

\* The catch at lines 93-114, followed for what it throws by the catch at
\* lines 115-121 (which rethrows all of it: BundlesNotFound is thrown at
\* line 108 only when fallbackToNpm is not true).
InstallCatch(p) ==
    /\ pc[p] = "catch"
    /\ IF error[p] = BundlesNotFoundError
       THEN /\ pc' = Upd(pc, p, afterChainMiss(config[p]))
            /\ done' = Upd(done, p, afterChainMiss(config[p]) = "rejected")
            /\ UNCHANGED error
       ELSE /\ pc' = Upd(pc, p, "rejected")
            /\ error' = Upd(error, p, rethrown(error[p]))
            /\ UNCHANGED done
    /\ UNCHANGED <<config, force, rePull, newPkgJson, newPkgJsonHash,
                   missingBackends, rsyncAvailable, pullVars, walkVars, diffVars,
                   pushTodo, nodeModules, cwd, envVars, logVars>>
    /\ UNCHANGED <<callerConfig, lfsVars>>

afterWalkFailureAnyError(err, cfg) ==
    IF cfg.fallbackToNpm = TRUE THEN "npmInstallAll" ELSE "rejected"

\* Lines 116-120: the native full install follows a BundlesNotFoundError
\* when fallbackToNpm is true; every other error is rethrown.
afterWalkFailure(err, cfg) ==
    IF err = BundlesNotFoundError /\ cfg.fallbackToNpm = TRUE
    THEN "npmInstallAll" ELSE "rejected"

\* The catch at lines 115-121, for a rejection of tryOlderBundles.
InstallCatch2(p) ==
    /\ pc[p] = "catch2"
    /\ pc' = Upd(pc, p, afterWalkFailure(error[p], config[p]))
    /\ UNCHANGED <<config, installVars, rsyncAvailable, pullVars, walkVars,
                   diffVars, pushTodo, error, nodeModules, cwd, envVars, logVars>>
    /\ UNCHANGED <<callerConfig, lfsVars>>

\* ------------------------------------------------------- history walker
\* tryOlderBundles, lines 163-171: isGitRepo, then pullOlderBundle with
\* historyIndex = 0 and the current hash as prevHash.
TryOlderBundles(p) ==
    /\ pc[p] = "tryOlderBundles"
    /\ \E isGitRepo \in BOOLEAN :
        IF isGitRepo
        THEN /\ pc' = Upd(pc, p, "pullOlderBundle")
             /\ historyIndex' = Upd(historyIndex, p, 0)
             /\ newHash' = Upd(newHash, p, newPkgJsonHash[p])
             /\ walkLog' = Upd(walkLog, p,
                    [NoWalk EXCEPT !.budget = config[p].useGitHistory.depth,
                                   !.isGitRepo = "yes",
                                   !.chain = pullCalls[p]])
             /\ UNCHANGED error
        ELSE /\ pc' = Upd(pc, p, "catch2")
             /\ error' = Upd(error, p, NotAGitRepoError)
             /\ walkLog' = Upd(walkLog, p, [NoWalk EXCEPT !.isGitRepo = "no"])
             /\ UNCHANGED <<historyIndex, newHash>>
    /\ UNCHANGED <<config, installVars, rsyncAvailable, pullVars, oldPkgJson,
                   diffVars, pushTodo, nodeModules, cwd, envVars, passes,
                   pullCalls, pushLog, nativeLog, fsLog>>
    /\ UNCHANGED <<callerConfig, lfsVars>>

RevisionsEndless(age) ==
    IF age <= Len(history) THEN {history[age]} ELSE RevisionValues

\* What gitWrapper.olderRevision(cwd, files, age) can give: the revision
\* already seen at that age, else a newly revealed one.  The history is
\* finite: git has no revision older than MaxHistory.
Revisions(age) ==
    IF age <= Len(history) THEN {history[age]}
    ELSE IF age > MaxHistory THEN {BadRevision}
    ELSE RevisionValues

Reveal(age, rev) ==
    IF age <= Len(history) \/ age > MaxHistory THEN history ELSE Append(history, rev)

\* The largest historyIndex a walk can be called with: the depth grows by
\* one for a revision with an unchanged hash, and git has MaxHistory
\* revisions to give.
MaxHistoryIndex == MaxDepth + MaxHistory + 1

depthUnchanged(depth) == depth

\* config.useGitHistory.depth++, line 293.
depthAfterEqualHash(depth) == depth + 1

\* pullOlderBundle(config, prevHash, lockfile, historyIndex), lines 262-303.
PullOlderBundle(p) ==
    /\ pc[p] = "pullOlderBundle"
    /\ historyIndex[p] <= MaxHistoryIndex
    /\ IF historyIndex[p] > config[p].useGitHistory.depth
       THEN /\ pc' = Upd(pc, p, "catch2")
            /\ error' = Upd(error, p, BundlesNotFoundError)
            /\ UNCHANGED <<config, pullVars, walkVars, history, pullCalls, walkLog>>
       ELSE \E rev \in Revisions(historyIndex[p] + 1) :
            /\ history' = Reveal(historyIndex[p] + 1, rev)
            /\ UNCHANGED error
            /\ IF rev = BadRevision
               THEN \* olderRevision or the parse rejected: line 306
                    /\ historyIndex' = Upd(historyIndex, p, historyIndexAfterFailure(historyIndex[p]))
                    /\ walkLog' = Upd(walkLog, p,
                           [walkLog[p] EXCEPT !.calls = @ + 1, !.failed = @ + 1])
                    /\ UNCHANGED <<pc, config, pullVars, newHash, oldPkgJson, pullCalls>>
               ELSE IF calcHash(rev) = newHash[p]
               THEN \* lines 290-296: the budget grows, an Error is thrown
                    /\ config' = Upd(config, p,
                           [config[p] EXCEPT !.useGitHistory.depth = depthAfterEqualHash(@)])
                    /\ oldPkgJson' = Upd(oldPkgJson, p, rev)
                    /\ historyIndex' = Upd(historyIndex, p, historyIndexAfterFailure(historyIndex[p]))
                    /\ walkLog' = Upd(walkLog, p,
                           [walkLog[p] EXCEPT !.calls = @ + 1, !.equal = @ + 1])
                    /\ UNCHANGED <<pc, pullVars, newHash, pullCalls>>
               ELSE \* lines 298-302: the chain is run for the older hash
                    /\ oldPkgJson' = Upd(oldPkgJson, p, rev)
                    /\ newHash' = Upd(newHash, p, calcHash(rev))
                    /\ pc' = Upd(pc, p, "pullBackends")
                    /\ backendIndex' = Upd(backendIndex, p, 0)
                    /\ pullHash' = Upd(pullHash, p, calcHash(rev))
                    /\ caller' = Upd(caller, p, "history")
                    /\ pullCalls' = Upd(pullCalls, p, <<>>)
                    /\ walkLog' = Upd(walkLog, p,
                           [walkLog[p] EXCEPT !.calls = @ + 1, !.attempts = @ + 1])
                    /\ UNCHANGED <<config, historyIndex>>
    /\ UNCHANGED <<installVars, rsyncAvailable, diffVars, pushTodo, nodeModules,
                   cwd, store, foreignPushes, passes, pushLog, nativeLog, fsLog>>
    /\ UNCHANGED <<callerConfig, lfsVars>>

\* ------------------------------------------------------ delta installer
\* Object.assign({}, pkgJson.devDependencies, pkgJson.dependencies)
allDeps(pkgJson) ==
    [k \in DOMAIN pkgJson.devDependencies \cup DOMAIN pkgJson.dependencies |->
        IF k \in DOMAIN pkgJson.dependencies
        THEN pkgJson.dependencies[k] ELSE pkgJson.devDependencies[k]]

toInstallAddedOnly(allDepsOld, allDepsNew) ==
    [k \in DOMAIN allDepsNew \ DOMAIN allDepsOld |-> allDepsNew[k]]

\* _.omitBy(objectDiff.diff(old, new), _.isUndefined): added and changed keys
toInstall(allDepsOld, allDepsNew) ==
    [k \in {j \in DOMAIN allDepsNew :
              j \notin DOMAIN allDepsOld \/ allDepsOld[j] # allDepsNew[j]} |->
        allDepsNew[k]]

\* _.keys(_.pickBy(objectDiff.diff(old, new), _.isUndefined)): deleted keys
toUninstall(allDepsOld, allDepsNew) == DOMAIN allDepsOld \ DOMAIN allDepsNew

NativeCall(p, op, args) ==
    [op |-> op, pass |-> passes[p], cwd |-> cwd[p], args |-> args,
     result |-> "pending"]

\* A tree after the native package manager has worked on it.
npmBuilt(tree) == {BuiltTree}

installDiffArgsSwapped(older, current) == [oldPkgJson |-> current, newPkgJson |-> older]

\* The arguments tryOlderBundles calls installDiff with, line 173: what
\* pullOlderBundle resolved with, and the manifest install has read.
installDiffArgs(older, current) == [oldPkgJson |-> older, newPkgJson |-> current]

\* installDiff(oldPkgJson, newPkgJson), lines 311-343, up to the first call
\* of the native package manager.
InstallDiff(p) ==
    /\ pc[p] = "installDiff"
    /\ walkLog' = Upd(walkLog, p,
           [walkLog[p] EXCEPT !.diffs =
               Append(@, installDiffArgs(oldPkgJson[p], newPkgJson[p]))])
    /\ LET args == installDiffArgs(oldPkgJson[p], newPkgJson[p]) IN
       IF args.newPkgJson = Undefined \/ args.oldPkgJson = Undefined
       THEN /\ pc' = Upd(pc, p, "catch2")
            /\ error' = Upd(error, p, TypeError)
            /\ UNCHANGED <<diffVars, nativeLog>>
       ELSE LET install == toInstall(allDeps(args.oldPkgJson), allDeps(args.newPkgJson))
                uninstall == toUninstall(allDeps(args.oldPkgJson), allDeps(args.newPkgJson))
            IN  /\ depsToInstall' = Upd(depsToInstall, p, install)
                /\ depsToUninstall' = Upd(depsToUninstall, p, uninstall)
                /\ IF DOMAIN install # {}
                   THEN /\ pc' = Upd(pc, p, "npmInstall")
                        /\ nativeLog' = Upd(nativeLog, p,
                               Append(nativeLog[p], NativeCall(p, "install", install)))
                        /\ UNCHANGED error
                   ELSE IF uninstall # {}
                   THEN /\ pc' = Upd(pc, p, "npmUninstall")
                        /\ nativeLog' = Upd(nativeLog, p,
                               Append(nativeLog[p], NativeCall(p, "uninstall", uninstall)))
                        /\ UNCHANGED error
                   ELSE /\ pc' = Upd(pc, p, "catch2")
                        /\ error' = Upd(error, p, AssertionError)
                        /\ UNCHANGED nativeLog
    /\ UNCHANGED <<config, installVars, rsyncAvailable, pullVars, walkVars,
                   pushTodo, nodeModules, cwd, envVars, passes, pullCalls,
                   pushLog, fsLog>>
    /\ UNCHANGED <<callerConfig, lfsVars>>

afterNpmInstallAlwaysUninstall(ok, uninstall) ==
    IF uninstall # {} THEN "npmUninstall" ELSE IF ok THEN "then" ELSE "catch2"

\* Lines 328-336: what follows npmWrapper.install: reject, the uninstall,
\* or resolve.
afterNpmInstall(ok, uninstall) ==
    IF ~ok THEN "catch2" ELSE IF uninstall # {} THEN "npmUninstall" ELSE "then"

\* npmWrapper.install(depsToInstall) settles, lines 328-336.
NpmInstall(p) ==
    /\ pc[p] = "npmInstall"
    /\ \E ok \in BOOLEAN :
        LET next == afterNpmInstall(ok, depsToUninstall[p])
            settled == SetResult(nativeLog[p], IF ok THEN "ok" ELSE "failed")
        IN  /\ pc' = Upd(pc, p, next)
            /\ nodeModules' = IF ok THEN Upd(nodeModules, p, npmBuilt(nodeModules[p]))
                              ELSE nodeModules
            /\ error' = IF ok THEN error ELSE Upd(error, p, NpmError)
            /\ nativeLog' = Upd(nativeLog, p,
                   IF next = "npmUninstall"
                   THEN Append(settled, NativeCall(p, "uninstall", depsToUninstall[p]))
                   ELSE settled)
    /\ UNCHANGED <<config, installVars, rsyncAvailable, pullVars, walkVars,
                   diffVars, pushTodo, cwd, envVars, passes, pullCalls, pushLog,
                   walkLog, fsLog>>
    /\ UNCHANGED <<callerConfig, lfsVars>>

\* npmWrapper.uninstall(depsToUninstall) settles, lines 332 and 339.
NpmUninstall(p) ==
    /\ pc[p] = "npmUninstall"
    /\ \E ok \in BOOLEAN :
        /\ nativeLog' = Upd(nativeLog, p,
               SetResult(nativeLog[p], IF ok THEN "ok" ELSE "failed"))
        /\ IF ok
           THEN /\ nodeModules' = Upd(nodeModules, p, npmBuilt(nodeModules[p]))
                /\ pc' = Upd(pc, p, "then")
                /\ UNCHANGED error
           ELSE /\ pc' = Upd(pc, p, "catch2")
                /\ error' = Upd(error, p, NpmError)
                /\ UNCHANGED nodeModules
    /\ UNCHANGED <<config, installVars, rsyncAvailable, pullVars, walkVars,
                   diffVars, pushTodo, cwd, envVars, passes, pullCalls, pushLog,
                   walkLog, fsLog>>
    /\ UNCHANGED <<callerConfig, lfsVars>>

\* npmInstallAll, lines 346-352, called at line 100 or 117; a rejection is
\* rethrown by the catch at line 115 and rejects install.
NpmInstallAll(p) ==
    /\ pc[p] = "npmInstallAll"
    /\ \E ok \in BOOLEAN :
        /\ nativeLog' = Upd(nativeLog, p,
               SetResult(Append(nativeLog[p], NativeCall(p, "installAll", {})),
                         IF ok THEN "ok" ELSE "failed"))
        /\ IF ok
           THEN /\ nodeModules' = Upd(nodeModules, p, npmBuilt(nodeModules[p]))
                /\ pc' = Upd(pc, p, "then")
                /\ UNCHANGED error
           ELSE /\ pc' = Upd(pc, p, "rejected")
                /\ error' = Upd(error, p, NpmError)
                /\ UNCHANGED nodeModules
    /\ UNCHANGED <<config, installVars, rsyncAvailable, pullVars, walkVars,
                   diffVars, pushTodo, cwd, envVars, passes, pullCalls, pushLog,
                   walkLog, fsLog>>
    /\ UNCHANGED <<callerConfig, lfsVars>>

\* ---------------------------------------------------------- push fanout
pushingBackendsAll(backendConfigs) ==
    {backendConfigs[i].alias : i \in DOMAIN backendConfigs}

\* The backends pushBackends(backendConfigs, ...) calls push on.
pushingBackends(backendConfigs) ==
    {backendConfigs[i].alias : i \in {j \in DOMAIN backendConfigs : backendConfigs[j].push}}

pushCandidatesAll(isDone, missing, backends) == backends

pushCandidatesMissing(isDone, missing, backends) == missing

\* The first argument of pushBackends, lines 125 and 144: missingBackends
\* when done, else config.backends.
pushCandidates(isDone, missing, backends) == IF isDone THEN missing ELSE backends

\* The then-callback at lines 122-158, up to the call of pushBackends: over
\* missingBackends after a chain hit, over the whole chain after a fallback.
InstallThen(p) ==
    /\ pc[p] = "then"
    /\ IF done[p] /\ Len(missingBackends[p]) = 0
       THEN /\ pc' = Upd(pc, p, "resolved")
            /\ UNCHANGED pushTodo
       ELSE /\ pc' = Upd(pc, p, "pushBackends")
            /\ pushTodo' = Upd(pushTodo, p,
                   pushingBackends(pushCandidates(done[p], missingBackends[p],
                                                  config[p].backends)))
    /\ UNCHANGED <<config, installVars, rsyncAvailable, pullVars, walkVars,
                   diffVars, error, nodeModules, cwd, envVars, logVars>>
    /\ UNCHANGED <<callerConfig, lfsVars>>

\* What a backend's push can answer: an atomic create-if-absent, or at any
\* time some other failure.
PushOutcomes(b, hash) ==
    (IF hash \in store[b] THEN {BundleAlreadyExistsError} ELSE {"ok"}) \cup {BackendError}

pushBackendsErrorUnguarded(err, isRePull) ==
    IF err = BundleAlreadyExistsError THEN RePullNeeded ELSE err

\* What pushBackends rejects with for a push that failed with err.
pushBackendsError(err, isRePull) ==
    IF err = BundleAlreadyExistsError /\ ~isRePull THEN RePullNeeded ELSE err

pushToleratedNever(res, descriptor) == res = "ok"

\* Whether the fanout goes on after a push has settled with res: it does
\* after a success, and after a failure other than BundleAlreadyExists of
\* a backend whose pushMayFail is set.
pushTolerated(res, descriptor) ==
    res = "ok" \/ (res = BackendError /\ descriptor.pushMayFail = TRUE)

rePullArgsNotMarked == [force |-> TRUE, rePull |-> FALSE]

\* The arguments of the recursive install call, lines 128-134 and 147-153.
rePullArgs == [force |-> TRUE, rePull |-> TRUE]

\* One push of the fanout settles; a rejection of the fanout reaches the
\* catch at lines 126-138 / 145-157, which re-enters install on RePullNeeded.
BackendPush(p, b) ==
    /\ pc[p] = "pushBackends"
    /\ b \in pushTodo[p]
    /\ \E res \in PushOutcomes(b, newPkgJsonHash[p]) :
        /\ pushLog' = Upd(pushLog, p, pushLog[p] \cup
               {[pass |-> passes[p], backend |-> b, hash |-> newPkgJsonHash[p],
                 result |-> res, cwd |-> cwd[p]]})
        /\ store' = IF res = "ok"
                    THEN [store EXCEPT ![b] = @ \cup {newPkgJsonHash[p]}]
                    ELSE store
        /\ IF pushTolerated(res, config[p].backends[b])
           THEN /\ pushTodo' = Upd(pushTodo, p, pushTodo[p] \ {b})
                /\ UNCHANGED <<pc, error, force, rePull>>
           ELSE /\ pushTodo' = Upd(pushTodo, p, {})
                /\ IF pushBackendsError(res, rePull[p]) = RePullNeeded
                   THEN /\ pc' = Upd(pc, p, "install")
                        /\ force' = Upd(force, p, rePullArgs.force)
                        /\ rePull' = Upd(rePull, p, rePullArgs.rePull)
                        /\ UNCHANGED error
                   ELSE /\ pc' = Upd(pc, p, "rejected")
                        /\ error' = Upd(error, p, pushBackendsError(res, rePull[p]))
                        /\ UNCHANGED <<force, rePull>>
    /\ UNCHANGED <<config, newPkgJson, newPkgJsonHash, missingBackends, done,
                   rsyncAvailable, pullVars, walkVars, diffVars, nodeModules, cwd,
                   history, foreignPushes, passes, pullCalls, nativeLog, walkLog,
                   fsLog>>
    /\ UNCHANGED <<callerConfig, lfsVars>>

\* Every push of the fanout has settled: pushBackends, and install, resolve.
PushBackendsDone(p) ==
    /\ pc[p] = "pushBackends"
    /\ pushTodo[p] = {}
    /\ pc' = Upd(pc, p, "resolved")
    /\ UNCHANGED <<config, installVars, rsyncAvailable, pullVars, walkVars,
                   diffVars, pushTodo, error, nodeModules, cwd, envVars, logVars>>
    /\ UNCHANGED <<callerConfig, lfsVars>>

\* ------------------------------------------------------------ environment
\* The bundle (b, hash) is what the next backend call of p looks at.
Observes(p, b, hash) ==
    \/ /\ pc[p] = "pull"
       /\ config[p].backends[backendIndex[p] + 1].alias = b
       /\ pullHash[p] = hash
    \/ /\ pc[p] = "pushBackends"
       /\ b \in pushTodo[p]
       /\ newPkgJsonHash[p] = hash

\* A writer that is not one of the modelled processes pushes a bundle.  A
\* process sees such a push only through its next pull or push of that
\* bundle, so the push is taken right before one.
OtherWriterPush(b, hash) ==
    /\ foreignPushes < MaxForeignPushes
    /\ hash \notin store[b]
    /\ \E p \in Procs : Observes(p, b, hash)
    /\ store' = [store EXCEPT ![b] = @ \cup {hash}]
    /\ foreignPushes' = foreignPushes + 1
    /\ UNCHANGED <<pc, config, installVars, rsyncAvailable, pullVars, walkVars,
                   diffVars, pushTodo, error, nodeModules, cwd, history, logVars>>
    /\ UNCHANGED <<callerConfig, lfsVars>>

\* ---------------------------------------------------------- specification
Next ==
    \/ \E p \in Procs :
        \/ InstallEnter(p)
        \/ CheckNodeModules(p)
        \/ ReadPackageFiles(p)
        \/ PullBackends(p)
        \/ BackendPull(p)
        \/ Unpack(p)
        \/ InstallCatch(p)
        \/ InstallCatch2(p)
        \/ TryOlderBundles(p)
        \/ PullOlderBundle(p)
        \/ InstallDiff(p)
        \/ NpmInstall(p)
        \/ NpmUninstall(p)
        \/ NpmInstallAll(p)
        \/ InstallThen(p)
        \/ PushBackendsDone(p)
        \/ \E b \in BackendIds : BackendPush(p, b)
    \/ \E b \in BackendIds, hash \in Hashes : OtherWriterPush(b, hash)

Spec == Init /\ [][Next]_vars

\* Every external operation settles and every callback of a settled promise
\* is run: a step that stays possible is taken.
SpecLive == Init /\ [][Next]_vars /\ WF_vars(Next)

\* Several processes install the same project, each in a checkout of its
\* own, against the same backends; no history walk is configured and no
\* one else writes.
InitRace ==
    /\ InitCommon
    /\ GitLfsUnused
    /\ pc = [p \in Procs |-> "install"]
    /\ \E c \in Configs :
        /\ c.useGitHistory.depth = 0
        /\ config = [p \in Procs |-> c]
    /\ callerConfig = config
    /\ force = [p \in Procs |-> FALSE]
    /\ nodeModules = [p \in Procs |-> Absent]
    /\ fsLog = [p \in Procs |->
                  [nodeModules0 |-> Absent, pkgRead |-> FALSE, hashed |-> FALSE,
                   removed |-> FALSE, awaited |-> "never"]]

NextRace ==
    \E p \in Procs :
        \/ InstallEnter(p)
        \/ CheckNodeModules(p)
        \/ ReadPackageFiles(p)
        \/ PullBackends(p)
        \/ BackendPull(p)
        \/ Unpack(p)
        \/ InstallCatch(p)
        \/ NpmInstallAll(p)
        \/ InstallThen(p)
        \/ PushBackendsDone(p)
        \/ \E b \in BackendIds : BackendPush(p, b)

SpecRace == InitRace /\ [][NextRace]_vars

\* installDiff on its own, for any two manifests: the dependency sections
\* of a manifest map some of DepNames to one of Versions each.
DepNames == {"a", "b"}
Versions == {"1.0.0", "2.0.0"}
Sections == UNION {[d -> Versions] : d \in SUBSET DepNames}
DiffManifests == [dependencies : Sections, devDependencies : Sections]

\* The state when tryOlderBundles calls installDiff(older, current).
InitDiff ==
    /\ GitLfsUnused
    /\ pc = [p \in Procs |-> IF p = 1 THEN "installDiff" ELSE "idle"]
    /\ config = [p \in Procs |->
                   [backends |-> [i \in BackendIds |-> Descriptor(i, <<FALSE, FALSE>>)],
                    useGitHistory |-> [depth |-> 1],
                    fallbackToNpm |-> FALSE]]
    /\ callerConfig = config
    /\ force = [p \in Procs |-> FALSE]
    /\ rePull = [p \in Procs |-> FALSE]
    /\ \E older \in DiffManifests, current \in DiffManifests :
        /\ oldPkgJson = [p \in Procs |-> IF p = 1 THEN older ELSE Undefined]
        /\ newPkgJson = [p \in Procs |-> IF p = 1 THEN current ELSE Undefined]
    /\ newPkgJsonHash = [p \in Procs |-> NoHash]
    /\ missingBackends = [p \in Procs |-> <<>>]
    /\ done = [p \in Procs |-> FALSE]
    /\ rsyncAvailable = [p \in Procs |-> FALSE]
    /\ backendIndex = [p \in Procs |-> 0]
    /\ pullHash = [p \in Procs |-> NoHash]
    /\ caller = [p \in Procs |-> IF p = 1 THEN "history" ELSE "install"]
    /\ historyIndex = [p \in Procs |-> 0]
    /\ newHash = [p \in Procs |-> NoHash]
    /\ depsToInstall = [p \in Procs |-> <<>>]
    /\ depsToUninstall = [p \in Procs |-> {}]
    /\ pushTodo = [p \in Procs |-> {}]
    /\ error = [p \in Procs |-> NoError]
    /\ nodeModules = [p \in Procs |-> Absent]
    /\ cwd = [p \in Procs |-> OriginalCwd]
    /\ store = [b \in BackendIds |-> {}]
    /\ history = <<>>
    /\ foreignPushes = 0
    /\ passes = [p \in Procs |-> IF p = 1 THEN 1 ELSE 0]
    /\ pullCalls = [p \in Procs |-> <<>>]
    /\ pushLog = [p \in Procs |-> {}]
    /\ nativeLog = [p \in Procs |-> <<>>]
    /\ walkLog = [p \in Procs |-> NoWalk]
    /\ fsLog = [p \in Procs |->
                  [nodeModules0 |-> Absent, pkgRead |-> FALSE, hashed |-> FALSE,
                   removed |-> FALSE, awaited |-> "never"]]

NextDiff ==
    \E p \in Procs :
        \/ InstallDiff(p)
        \/ NpmInstall(p)
        \/ NpmUninstall(p)

SpecDiff == InitDiff /\ [][NextDiff]_vars

\* ------------------------------------------------------- the rePull pass
\* The owner of a bundle removes it from a backend.  As with a push of
\* another writer, a process sees this only through its next pull of that
\* bundle, so the removal is taken right before one.
OtherWriterRemove(b, hash) ==
    /\ hash \in store[b]
    /\ \E p \in Procs : pc[p] = "pull" /\ Observes(p, b, hash)
    /\ store' = [store EXCEPT ![b] = @ \ {hash}]
    /\ UNCHANGED <<pc, config, installVars, rsyncAvailable, pullVars, walkVars,
                   diffVars, pushTodo, error, nodeModules, cwd, history,
                   foreignPushes, logVars>>
    /\ UNCHANGED <<callerConfig, lfsVars>>

\* The recursive call of install at lines 128-134 / 147-153, made by
\* process 1 after the push of the current fingerprint to a backend was
\* answered BundleAlreadyExists: force and rePull are true, the hash is
\* pinned, and node_modules holds the tree of the first pass.
InitRePull ==
    /\ GitLfsUnused
    /\ pc = [p \in Procs |-> IF p = 1 THEN "install" ELSE "idle"]
    /\ \E c \in Configs : config = [p \in Procs |-> c]
    /\ callerConfig = config
    /\ force = [p \in Procs |-> IF p = 1 THEN rePullArgs.force ELSE FALSE]
    /\ rePull = [p \in Procs |-> IF p = 1 THEN rePullArgs.rePull ELSE FALSE]
    /\ newPkgJson = [p \in Procs |-> Undefined]
    /\ newPkgJsonHash = [p \in Procs |-> IF p = 1 THEN calcHash(PKGJSON) ELSE NoHash]
    /\ missingBackends = [p \in Procs |-> <<>>]
    /\ done = [p \in Procs |-> FALSE]
    /\ \E res \in BOOLEAN :
          rsyncAvailable = [p \in Procs |-> IF p = 1 THEN res ELSE FALSE]
    /\ backendIndex = [p \in Procs |-> 0]
    /\ pullHash = [p \in Procs |-> NoHash]
    /\ caller = [p \in Procs |-> "install"]
    /\ historyIndex = [p \in Procs |-> 0]
    /\ newHash = [p \in Procs |-> NoHash]
    /\ oldPkgJson = [p \in Procs |-> Undefined]
    /\ depsToInstall = [p \in Procs |-> <<>>]
    /\ depsToUninstall = [p \in Procs |-> {}]
    /\ pushTodo = [p \in Procs |-> {}]
    /\ error = [p \in Procs |-> NoError]
    /\ \E tree \in {npmBuilt(Absent), Bundle(calcHash(PKGJSON))} :
          nodeModules = [p \in Procs |-> IF p = 1 THEN tree ELSE Absent]
    /\ cwd = [p \in Procs |-> OriginalCwd]
    /\ \E b \in pushingBackends(config[1].backends) :
        /\ store = [i \in BackendIds |-> IF i = b THEN {calcHash(PKGJSON)} ELSE {}]
        /\ pushLog = [p \in Procs |->
               IF p = 1
               THEN {[pass |-> 1, backend |-> b, hash |-> calcHash(PKGJSON),
                      result |-> BundleAlreadyExistsError, cwd |-> OriginalCwd]}
               ELSE {}]
    /\ history = <<>>
    /\ foreignPushes = 0
    /\ passes = [p \in Procs |-> IF p = 1 THEN 1 ELSE 0]
    /\ pullCalls = [p \in Procs |-> <<>>]
    /\ nativeLog = [p \in Procs |-> <<>>]
    /\ walkLog = [p \in Procs |-> NoWalk]
    /\ fsLog = [p \in Procs |->
                  [nodeModules0 |-> Absent, pkgRead |-> p = 1, hashed |-> p = 1,
                   removed |-> FALSE, awaited |-> "never"]]

NextRePull ==
    \/ \E p \in Procs :
        \/ InstallEnter(p)
        \/ PullBackends(p)
        \/ BackendPull(p)
        \/ Unpack(p)
        \/ InstallCatch(p)
        \/ InstallCatch2(p)
        \/ TryOlderBundles(p)
        \/ PullOlderBundle(p)
        \/ InstallDiff(p)
        \/ NpmInstallAll(p)
        \/ InstallThen(p)
        \/ PushBackendsDone(p)
        \/ \E b \in BackendIds : BackendPush(p, b)
    \/ \E b \in BackendIds, hash \in Hashes : OtherWriterPush(b, hash)
    \/ \E b \in BackendIds, hash \in Hashes : OtherWriterRemove(b, hash)

SpecRePull == InitRePull /\ [][NextRePull]_vars

\* ------------------------------------------------------- git-lfs backend
\* The git-lfs backend on its own: one process calls its pull and push, one
\* call after the other.  Every git and tar step resolves but the checkout
\* of the tag in pull (the tag may not be there) and the tag and push steps
\* of push.
needsFetchAlways(fresh) == TRUE

\* git fetch is run unless the remote has been fetched in this process.
needsFetch(fresh) == ~fresh

\* pull(hash, options, cacheDir) or push(hash, options, cacheDir) is called.
LfsCall(op) ==
    /\ lfsPc = "idle"
    /\ lfsLog.pulls + lfsLog.pushes < MaxLfsCalls
    /\ lfsPc' = "sync"
    /\ lfsLog' = [lfsLog EXCEPT !.op = op,
                                !.pulls = IF op = "pull" THEN @ + 1 ELSE @,
                                !.pushes = IF op = "push" THEN @ + 1 ELSE @,
                                !.failedAt = "none", !.gitError = NoError,
                                !.result = "pending"]
    /\ UNCHANGED <<_remoteIsFresh, repoCloned, engineVars>>

\* The cache repo is cloned if it is not there, else fetched unless fresh.
LfsSync ==
    /\ lfsPc = "sync"
    /\ IF ~repoCloned
       THEN /\ repoCloned' = TRUE
            /\ lfsLog' = [lfsLog EXCEPT !.clones = @ + 1]
            /\ UNCHANGED _remoteIsFresh
       ELSE /\ lfsLog' = [lfsLog EXCEPT !.fetches =
                              IF needsFetch(_remoteIsFresh) THEN @ + 1 ELSE @]
            /\ _remoteIsFresh' = TRUE
            /\ UNCHANGED repoCloned
    /\ lfsPc' = IF lfsLog.op = "pull" THEN "checkout" ELSE "commit"
    /\ UNCHANGED engineVars

\* pull: the tag veendor-<hash> is checked out; if git rejects, the backend
\* rejects with BundleNotFoundError and tar is not run.
LfsCheckout ==
    /\ lfsPc = "checkout"
    /\ \E found \in BOOLEAN :
        IF found
        THEN /\ lfsPc' = "extract"
             /\ UNCHANGED lfsLog
        ELSE /\ lfsPc' = "idle"
             /\ lfsLog' = [lfsLog EXCEPT !.failedAt = "checkout",
                                         !.gitError = GitError,
                                         !.result = BundleNotFoundError]
    /\ UNCHANGED <<_remoteIsFresh, repoCloned, engineVars>>

\* pull: git lfs pull, then the archive is unpacked to the cwd.
LfsExtract ==
    /\ lfsPc = "extract"
    /\ lfsPc' = "idle"
    /\ lfsLog' = [lfsLog EXCEPT !.result = "ok"]
    /\ UNCHANGED <<_remoteIsFresh, repoCloned, engineVars>>

\* push: the default branch is checked out and reset to the remote,
\* node_modules is archived, and the archive is added and committed.
LfsCommit ==
    /\ lfsPc = "commit"
    /\ lfsPc' = "tag"
    /\ UNCHANGED <<_remoteIsFresh, repoCloned, lfsLog, engineVars>>

pushErrorAsIs(err) == err

\* What push rejects with when git tag or git push has rejected with err.
pushError(err) ==
    IF err = RefAlreadyExistsError THEN BundleAlreadyExistsError ELSE err

\* push: git tag veendor-<hash>, then git push of the tag.
LfsTagOrPush(step) ==
    /\ lfsPc = step
    /\ \E res \in {"ok", RefAlreadyExistsError, GitError} :
        IF res = "ok"
        THEN /\ lfsPc' = IF step = "tag" THEN "push" ELSE "idle"
             /\ lfsLog' = IF step = "tag" THEN lfsLog
                          ELSE [lfsLog EXCEPT !.result = "ok"]
        ELSE /\ lfsPc' = "idle"
             /\ lfsLog' = [lfsLog EXCEPT !.failedAt = step, !.gitError = res,
                                         !.result = pushError(res)]
    /\ UNCHANGED <<_remoteIsFresh, repoCloned, engineVars>>

\* No install runs.
EngineIdle ==
    /\ InitCommon
    /\ pc = [p \in Procs |-> "idle"]
    /\ config = [p \in Procs |->
                   [backends |-> [i \in BackendIds |-> Descriptor(i, <<TRUE, FALSE>>)],
                    useGitHistory |-> [depth |-> 0],
                    fallbackToNpm |-> FALSE]]
    /\ callerConfig = config
    /\ force = [p \in Procs |-> FALSE]
    /\ nodeModules = [p \in Procs |-> Absent]
    /\ fsLog = [p \in Procs |->
                  [nodeModules0 |-> Absent, pkgRead |-> FALSE, hashed |-> FALSE,
                   removed |-> FALSE, awaited |-> "never"]]

\* A process starts with _remoteIsFresh = false; the cache repo may be there.
InitGitLfs ==
    /\ EngineIdle
    /\ _remoteIsFresh = FALSE
    /\ \E cloned \in BOOLEAN :
        /\ repoCloned = cloned
        /\ lfsLog = NoLfsCall(cloned)
    /\ lfsPc = "idle"

NextGitLfs ==
    \/ \E op \in {"pull", "push"} : LfsCall(op)
    \/ LfsSync
    \/ LfsCheckout
    \/ LfsExtract
    \/ LfsCommit
    \/ \E step \in {"tag", "push"} : LfsTagOrPush(step)

SpecGitLfs == InitGitLfs /\ [][NextGitLfs]_vars

\* ================================================================ claims
Running(p) == pc[p] \notin {"idle", "resolved", "rejected"}

\* The pull chain that last ran in p has hit at backendIndex[p].
ChainHit(p) ==
    \/ pc[p] = "then" /\ done[p]
    \/ pc[p] = "installDiff"

\* C1 -- chain ordering: when pullBackends succeeds at index k, pull was
\* invoked exactly once on each of the backends 0..k, in chain order and
\* with the hash of the call, every one before k answered BundleNotFound,
\* no backend after k was pulled, and the missingBackends install receives
\* is the prefix chain[0..k-1].
C1_ChainOrdering ==
    \A p \in Procs :
        ChainHit(p) =>
            LET k == backendIndex[p] IN
            /\ Len(pullCalls[p]) = k + 1
            /\ \A i \in 1..(k + 1) :
                /\ pullCalls[p][i].index = i - 1
                /\ pullCalls[p][i].hash = pullHash[p]
                /\ pullCalls[p][i].result =
                       IF i <= k THEN BundleNotFoundError ELSE "ok"
            /\ (pc[p] = "then" =>
                    /\ Len(missingBackends[p]) = k
                    /\ \A i \in 1..k : missingBackends[p][i] = config[p].backends[i])

C1_Witness ==
    \E p \in Procs : pc[p] = "then" /\ done[p] /\ backendIndex[p] >= 1

\* Every backend of the chain has answered BundleNotFound for the current
\* fingerprint in the first pass.
ChainExhausted(p) ==
    /\ passes[p] = 1
    /\ Len(pullCalls[p]) = Len(config[p].backends)
    /\ \A i \in DOMAIN pullCalls[p] :
        /\ pullCalls[p][i].hash = newPkgJsonHash[p]
        /\ pullCalls[p][i].result = BundleNotFoundError

NoFallback(p) ==
    ~(config[p].useGitHistory.depth > 0) /\ config[p].fallbackToNpm # TRUE

\* C2 -- chain exhaustion without fallback: when every backend answers
\* BundleNotFound for the current fingerprint and neither the history walk
\* nor fallbackToNpm is configured, install rejects with
\* BundlesNotFoundError, and neither the native package manager nor any
\* backend push is invoked.
C2_ChainExhaustionNoFallback ==
    \A p \in Procs :
        (ChainExhausted(p) /\ NoFallback(p)) =>
            /\ pc[p] \in {"pullBackends", "catch", "rejected"}
            /\ (pc[p] \in {"catch", "rejected"} => error[p] = BundlesNotFoundError)
            /\ nativeLog[p] = <<>>
            /\ pushLog[p] = {}

C2_Witness ==
    \E p \in Procs :
        /\ ChainExhausted(p) /\ NoFallback(p)
        /\ pc[p] = "rejected" /\ error[p] = BundlesNotFoundError

\* C3 -- on a first pass with node_modules present and force = false,
\* install rejects with NodeModulesAlreadyExistError without having read
\* the manifest, computed a fingerprint, pulled, pushed or run the native
\* package manager, and node_modules is as it was.
C3_NodeModulesAlreadyExist ==
    \A p \in Procs :
        (pc[p] # "idle" /\ ~rePull[p] /\ ~force[p]
         /\ fsLog[p].nodeModules0 # Absent) =>
            /\ pc[p] \in {"install", "checkNodeModules", "catch", "rejected"}
            /\ (pc[p] \in {"catch", "rejected"} =>
                    error[p] = NodeModulesAlreadyExistError)
            /\ ~fsLog[p].pkgRead /\ ~fsLog[p].hashed
            /\ newPkgJsonHash[p] = NoHash
            /\ pullCalls[p] = <<>> /\ pushLog[p] = {} /\ nativeLog[p] = <<>>
            /\ nodeModules[p] = fsLog[p].nodeModules0

C3_Witness ==
    \E p \in Procs :
        /\ pc[p] = "rejected" /\ error[p] = NodeModulesAlreadyExistError
        /\ nodeModules[p] = {PreTree}

\* C4 -- rePull bound: install re-enters itself at most once, and a push
\* that reports BundleAlreadyExists during the second pass makes install
\* reject with that error instead of starting another pass.
C4_RePullBound ==
    \A p \in Procs :
        /\ passes[p] <= 2
        /\ \A e \in pushLog[p] :
            (e.pass = 2 /\ e.result = BundleAlreadyExistsError) =>
                pc[p] = "rejected" /\ error[p] = BundleAlreadyExistsError

C4_Witness ==
    \E p \in Procs : \E e \in pushLog[p] :
        e.pass = 2 /\ e.result = BundleAlreadyExistsError

\* The push of p's first pass to backend b was answered BundleAlreadyExists.
PushConflict(p, b) ==
    \E e \in pushLog[p] :
        e.pass = 1 /\ e.backend = b /\ e.result = BundleAlreadyExistsError

\* In its second pass p has pulled the pinned fingerprint from backend b.
RePulledFrom(p, b) ==
    /\ passes[p] = 2
    /\ Len(pullCalls[p]) >= 1
    /\ pullCalls[p][Len(pullCalls[p])] =
           [index |-> b - 1, hash |-> newPkgJsonHash[p], result |-> "ok"]

\* C5 -- push conflict, then rePull: when a push of the first pass to
\* backend B is answered BundleAlreadyExists and B's pull of the same
\* fingerprint succeeds in the second pass, install does not fail, makes no
\* third pass and does not push to B in the second pass.
C5_RePullSucceeds ==
    \A p \in Procs : \A b \in BackendIds :
        (PushConflict(p, b) /\ RePulledFrom(p, b)) =>
            /\ pc[p] # "rejected"
            /\ passes[p] = 2
            /\ \A e \in pushLog[p] : ~(e.pass = 2 /\ e.backend = b)

\* C6 -- no leak: whenever install has rejected, node_modules is absent or
\* is the tree that was there before the call.
C6_NoLeakOnFailure ==
    \A p \in Procs :
        pc[p] = "rejected" => nodeModules[p] \in {Absent, fsLog[p].nodeModules0}

\* C7 -- the working directory is the caller's whenever pullBackends has
\* settled, before each next backend attempt and when install settles: it
\* is the scratch directory only while a backend pull runs or its tree is
\* awaited, and never while the native package manager or a push runs.
C7_CwdRestored ==
    \A p \in Procs :
        /\ (pc[p] \notin {"pull", "unpack"} => cwd[p] = OriginalCwd)
        /\ \A e \in pushLog[p] : e.cwd = OriginalCwd
        /\ \A i \in DOMAIN nativeLog[p] : nativeLog[p][i].cwd = OriginalCwd

C7_Witness ==
    \E p \in Procs :
        /\ pc[p] = "resolved"
        /\ Len(pullCalls[p]) >= 2
        /\ pushLog[p] # {}
        /\ nativeLog[p] # <<>>

SuccessfulPushes(b, hash) ==
    {<<p, e>> \in UNION {{p} \X pushLog[p] : p \in Procs} :
        e.backend = b /\ e.hash = hash /\ e.result = "ok"}

\* p lost a race: one of its pushes was answered BundleAlreadyExists.
Loser(p) == \E e \in pushLog[p] : e.result = BundleAlreadyExistsError

\* C9 -- concurrent writers: at most one push per (fingerprint, backend)
\* succeeds, and a process that lost a race, once it has settled without a
\* backend or native failure, has made exactly one rePull with the same
\* fingerprint and has completed with the pulled bundle of it.
C9_ConcurrentWriters ==
    /\ \A b \in BackendIds : \A hash \in Hashes :
        Cardinality(SuccessfulPushes(b, hash)) <= 1
    /\ \A p \in Procs :
        (Loser(p) /\ ~Running(p) /\ error[p] \notin {BackendError, NpmError}) =>
            /\ passes[p] = 2
            /\ \A e \in pushLog[p] : e.hash = newPkgJsonHash[p]
            /\ pc[p] = "resolved"
            /\ nodeModules[p] = Bundle(newPkgJsonHash[p])

\* C10 -- a revision whose fingerprint equals lastFingerprint does not
\* consume the depth budget: a walk that gives up without a failed revision
\* has run the pull chain at budget + 1 revisions however many equal ones
\* lay between them, and the chain is never run for a revision whose
\* fingerprint equals lastFingerprint.
C10_HistoryDepthIdempotence ==
    [][\A p \in Procs :
        /\ (pc[p] = "pullOlderBundle" /\ pc'[p] = "catch2"
            /\ walkLog[p].failed = 0) =>
                walkLog[p].attempts = walkLog[p].budget + 1
        /\ (pc[p] = "pullOlderBundle" /\ pc'[p] = "pullBackends") =>
                pullHash'[p] # newHash[p]]_vars

C10_Witness ==
    \E p \in Procs :
        /\ pc[p] = "catch2" /\ error[p] = BundlesNotFoundError
        /\ walkLog[p].failed = 0
        /\ walkLog[p].equal >= 1

\* The walk of p has given up (line 271) after revisions that could all be
\* had and that all differed from the one before, with every chain it ran
\* ending in BundlesNotFound.
WalkExhausted(p) ==
    /\ pc[p] = "catch2" /\ error[p] = BundlesNotFoundError
    /\ walkLog[p].budget > 0
    /\ walkLog[p].failed = 0 /\ walkLog[p].equal = 0
    /\ walkLog[p].missed = walkLog[p].attempts

\* C11 -- the history walk looks in useGitHistory.depth entries: with
\* depth d > 0, every backend missing every fingerprint and consecutive
\* revisions of pairwise different fingerprints, olderRevision is called
\* exactly d times before the walk fails.
C11_WalkLooksInDepthEntries ==
    \A p \in Procs :
        WalkExhausted(p) => walkLog[p].calls = walkLog[p].budget

\* C12 -- history activation: gitWrapper.olderRevision is never invoked
\* unless the pull chain for the current fingerprint failed with
\* BundlesNotFound (every backend of the chain answered BundleNotFound for
\* it), config.useGitHistory.depth was > 0 and isGitRepo succeeded.
C12_HistoryActivation ==
    \A p \in Procs :
        walkLog[p].calls > 0 =>
            /\ walkLog[p].budget > 0
            /\ walkLog[p].isGitRepo = "yes"
            /\ Len(walkLog[p].chain) = Len(config[p].backends)
            /\ \A i \in DOMAIN walkLog[p].chain :
                /\ walkLog[p].chain[i].hash = newPkgJsonHash[p]
                /\ walkLog[p].chain[i].result = BundleNotFoundError

C12_Witness ==
    \E p \in Procs :
        /\ walkLog[p].calls > 0
        /\ Len(walkLog[p].chain) = NumBackends

\* The walk of p has stopped at a hit: the chain run for the hash of the
\* revision at historyIndex[p] has succeeded.
HistoryHit(p) ==
    /\ passes[p] = 1 /\ caller[p] = "history"
    /\ pc[p] \in {"installDiff", "npmInstall", "npmUninstall"}

\* C13 -- history hit: when the chain succeeds for a revision whose
\* fingerprint differs from lastFingerprint, the walk requests no older
\* revision, and installDiff is invoked exactly once, with the manifest
\* parsed at that revision and the current manifest.
C13_HistoryHit ==
    \A p \in Procs :
        /\ Len(walkLog[p].diffs) <= 1
        /\ (HistoryHit(p) /\ pc[p] # "installDiff") => Len(walkLog[p].diffs) = 1
        /\ (HistoryHit(p) \/ (passes[p] = 1 /\ Len(walkLog[p].diffs) = 1)) =>
            /\ walkLog[p].calls = historyIndex[p] + 1
            /\ pullCalls[p][Len(pullCalls[p])].result = "ok"
            /\ pullCalls[p][Len(pullCalls[p])].hash = calcHash(history[historyIndex[p] + 1])
        /\ Len(walkLog[p].diffs) = 1 =>
            /\ walkLog[p].calls = historyIndex[p] + 1
            /\ walkLog[p].diffs[1] =
                [oldPkgJson |-> history[historyIndex[p] + 1], newPkgJson |-> PKGJSON]

C13_Witness ==
    \E p \in Procs :
        /\ HistoryHit(p) /\ pc[p] = "npmInstall"
        /\ historyIndex[p] >= 1

\* The union of the dev and the runtime dependencies of a manifest, the
\* runtime entry taken for a key that is in both.
HasDep(pkgJson, k) ==
    k \in DOMAIN pkgJson.devDependencies \/ k \in DOMAIN pkgJson.dependencies

DepValue(pkgJson, k) ==
    IF k \in DOMAIN pkgJson.dependencies
    THEN pkgJson.dependencies[k] ELSE pkgJson.devDependencies[k]

ExpectedInstall(old, new) ==
    {k \in DepNames :
        HasDep(new, k) /\ (~HasDep(old, k) \/ DepValue(old, k) # DepValue(new, k))}

ExpectedUninstall(old, new) ==
    {k \in DepNames : HasDep(old, k) /\ ~HasDep(new, k)}

NativeCalls(p, op) == {i \in DOMAIN nativeLog[p] : nativeLog[p][i].op = op}

\* C14 -- delta computation: for any old and new manifests, native install
\* is called with exactly the entries of newAll whose key is absent from
\* oldAll or whose value differs and native uninstall with exactly the keys
\* of oldAll absent from newAll; install is not called when the first set
\* is empty and uninstall is not called when the second is.
C14_DeltaComputation ==
    \A p \in Procs :
        pc[p] \notin {"idle", "installDiff"} =>
            LET old == oldPkgJson[p]
                new == newPkgJson[p]
                install == ExpectedInstall(old, new)
                uninstall == ExpectedUninstall(old, new)
            IN  /\ Cardinality(NativeCalls(p, "install")) =
                       (IF install = {} THEN 0 ELSE 1)
                /\ \A i \in NativeCalls(p, "install") :
                    /\ i = 1
                    /\ DOMAIN nativeLog[p][i].args = install
                    /\ \A k \in install : nativeLog[p][i].args[k] = DepValue(new, k)
                /\ Cardinality(NativeCalls(p, "uninstall")) <=
                       (IF uninstall = {} THEN 0 ELSE 1)
                /\ \A i \in NativeCalls(p, "uninstall") :
                       nativeLog[p][i].args = uninstall
                /\ (uninstall # {} /\ (install = {} \/ pc[p] \in {"npmUninstall", "then"})) =>
                       NativeCalls(p, "uninstall") # {}
                /\ NativeCalls(p, "installAll") = {}

C14_Witness ==
    \E p \in Procs :
        /\ pc[p] = "then"
        /\ Len(nativeLog[p]) = 2
        /\ \E k \in DOMAIN nativeLog[p][1].args :
            /\ k \in DOMAIN newPkgJson[p].devDependencies
            /\ k \in DOMAIN newPkgJson[p].dependencies
            /\ k \in DOMAIN oldPkgJson[p].devDependencies
            /\ newPkgJson[p].devDependencies[k] # newPkgJson[p].dependencies[k]
            /\ newPkgJson[p].devDependencies[k] = oldPkgJson[p].devDependencies[k]

\* C15 -- delta ordering: when both toInstall and toUninstall are
\* non-empty, native uninstall is invoked only after native install has
\* completed successfully; if native install fails, uninstall is never
\* invoked and the reconcile fails with the install error.
C15_DeltaOrdering ==
    \A p \in Procs :
        (pc[p] \notin {"idle", "installDiff"}
         /\ DOMAIN depsToInstall[p] # {} /\ depsToUninstall[p] # {}) =>
            /\ nativeLog[p][1].op = "install"
            /\ \A i \in NativeCalls(p, "uninstall") :
                i = 2 /\ nativeLog[p][1].result = "ok"
            /\ nativeLog[p][1].result = "failed" =>
                /\ NativeCalls(p, "uninstall") = {}
                /\ pc[p] \in {"catch2", "rejected"} /\ error[p] = NpmError
            /\ nativeLog[p][1].result = "ok" => NativeCalls(p, "uninstall") = {2}

C15_Witness ==
    \E p \in Procs :
        /\ DOMAIN depsToInstall[p] # {} /\ depsToUninstall[p] # {}
        /\ nativeLog[p] # <<>>
        /\ nativeLog[p][1].result = "failed"

\* The chain of the running pass of p has hit for the current fingerprint.
PulledCurrent(p) ==
    /\ done[p]
    /\ pullCalls[p] # <<>>
    /\ pullCalls[p][Len(pullCalls[p])].result = "ok"

\* C16 -- push targets after a chain hit: when the chain for the current
\* fingerprint succeeds at index k, push is invoked only on backends at
\* indices < k; the backend that served the pull and the backends after it
\* are never pushed to, and with k = 0 no push is invoked at all.
C16_PushTargetsAfterHit ==
    \A p \in Procs :
        PulledCurrent(p) =>
            LET k == backendIndex[p] IN
            /\ \A e \in pushLog[p] : e.pass = passes[p] => e.backend - 1 < k
            /\ \A b \in pushTodo[p] : b - 1 < k
            /\ (k = 0 => \A e \in pushLog[p] : e.pass # passes[p])

C16_Witness ==
    \E p \in Procs :
        /\ PulledCurrent(p) /\ pc[p] = "resolved"
        /\ backendIndex[p] = 1
        /\ config[p].backends[2].push
        /\ \E e \in pushLog[p] : e.pass = passes[p] /\ e.backend = 1

\* The backends the running pass of p has pushed to.
PushedTo(p) == {e.backend : e \in {x \in pushLog[p] : x.pass = passes[p]}}

\* node_modules of p was made by a fallback: the history walk and the
\* delta, or the full native install.
AfterFallback(p) ==
    /\ ~done[p]
    /\ pc[p] \in {"pushBackends", "resolved"}

\* C17 -- push after a fallback: when node_modules was produced by the
\* history fallback or by the native full install, the push fanout runs
\* over the full backend chain, and every push carries the fingerprint of
\* the current manifest, never that of the older revision that was pulled.
C17_PushAfterFallback ==
    \A p \in Procs :
        /\ AfterFallback(p) =>
            /\ PushedTo(p) \cup pushTodo[p] = pushingBackends(config[p].backends)
            /\ (pc[p] = "resolved" => pushTodo[p] = {})
        /\ \A e \in pushLog[p] : e.hash = calcHash(PKGJSON)

C17_Witness ==
    \E p \in Procs :
        /\ AfterFallback(p) /\ pc[p] = "resolved"
        /\ caller[p] = "history" /\ pullHash[p] # calcHash(PKGJSON)
        /\ Cardinality(PushedTo(p)) = NumBackends

\* C18 -- push capability filter: in every push fanout a backend's push is
\* invoked only if its descriptor has push = true, whether the backend was
\* missed in the chain or the fanout covers the full chain.
C18_PushCapabilityFilter ==
    \A p \in Procs :
        /\ \A e \in pushLog[p] : config[p].backends[e.backend].push = TRUE
        /\ \A b \in pushTodo[p] : config[p].backends[b].push = TRUE

C18_Witness ==
    \E p \in Procs :
        /\ pc[p] = "resolved"
        /\ PushedTo(p) = {2}
        /\ ~config[p].backends[1].push
        /\ ~done[p]

\* C19 -- push failure tolerance: a push failure other than
\* BundleAlreadyExists from a backend with pushMayFail = true does not fail
\* the install and the remaining push candidates are still pushed; the same
\* failure from a backend with pushMayFail = false makes install reject
\* with that error.
C19_PushFailureTolerance ==
    [][\A p \in Procs : \A b \in BackendIds :
        (/\ pc[p] = "pushBackends"
         /\ \E e \in pushLog'[p] \ pushLog[p] :
                e.backend = b /\ e.result = BackendError) =>
            IF config[p].backends[b].pushMayFail = TRUE
            THEN /\ pc'[p] = "pushBackends"
                 /\ error'[p] = error[p]
                 /\ pushTodo'[p] = pushTodo[p] \ {b}
            ELSE /\ pc'[p] = "rejected"
                 /\ error'[p] = BackendError]_vars

C19_Witness ==
    \E p \in Procs :
        /\ pc[p] = "resolved"
        /\ \E e \in pushLog[p] :
            /\ e.pass = passes[p] /\ e.backend = 1 /\ e.result = BackendError
        /\ \E e \in pushLog[p] :
            /\ e.pass = passes[p] /\ e.backend = 2 /\ e.result = "ok"

\* p runs, or has run, a first pass with force = true on a project that
\* had a node_modules, and checkNodeModules has resolved.
ForcedOverTree(p) ==
    /\ passes[p] = 1 /\ ~rePull[p] /\ force[p]
    /\ fsLog[p].nodeModules0 # Absent
    /\ pc[p] \notin {"idle", "install", "checkNodeModules"}

\* A pulled tree has been placed in the project root of p.
TreePlaced(p) == nodeModules[p] \cap Hashes # {}

FirstPullOverTree(p) ==
    /\ ForcedOverTree(p)
    /\ pc[p] = "pull" /\ caller[p] = "install" /\ Len(pullCalls[p]) = 1

\* C21 -- deferred removal: with force = true and node_modules present,
\* the completion of the removal is not awaited before the first backend
\* pull is invoked; it is awaited only after a backend pull has succeeded
\* and before the pulled tree is placed in the project root.
C21_DeferredRemoval ==
    \A p \in Procs :
        /\ FirstPullOverTree(p) => fsLog[p].awaited = "never"
        /\ (ForcedOverTree(p) /\ fsLog[p].awaited # "never") =>
                fsLog[p].awaited = "afterPull"

\* C22 -- a failed pull does not destroy a working tree: with force = true
\* and a node_modules that was there, if install fails because no backend
\* pull succeeds, node_modules is as it was when install rejects.
C22_FailedPullKeepsTree ==
    \A p \in Procs :
        (/\ ForcedOverTree(p) /\ pc[p] = "rejected"
         /\ ChainExhausted(p) /\ NoFallback(p)) =>
            nodeModules[p] = fsLog[p].nodeModules0

\* The manifest of p's first pass was looked for and was not there.
ManifestMissing(p) == passes[p] = 1 /\ fsLog[p].pkgRead /\ ~fsLog[p].hashed

\* C23 -- manifest missing: on a first pass, if the manifest file does not
\* exist, install rejects with PkgJsonNotFoundError and no backend pull,
\* history query, native install or push is invoked.
C23_ManifestMissing ==
    \A p \in Procs :
        ManifestMissing(p) =>
            /\ pc[p] \in {"catch", "rejected"}
            /\ (pc[p] = "rejected" => error[p] = PkgJsonNotFoundError)
            /\ pullCalls[p] = <<>>
            /\ walkLog[p] = NoWalk
            /\ nativeLog[p] = <<>>
            /\ pushLog[p] = {}

C23_Witness ==
    \E p \in Procs :
        /\ ManifestMissing(p)
        /\ pc[p] = "rejected" /\ error[p] = PkgJsonNotFoundError
        /\ config[p].fallbackToNpm /\ config[p].useGitHistory.depth > 0

\* The pull of the current fingerprint on backend backendIndex[p] has
\* failed with an error other than BundleNotFound.
PullFailed(p) ==
    /\ caller[p] = "install"
    /\ pullCalls[p] # <<>>
    /\ \E i \in DOMAIN pullCalls[p] : pullCalls[p][i].result = BackendError

\* C26 -- a pull failure other than BundleNotFound is fatal: no backend
\* after k is pulled, the chain rejects with that error and install rejects
\* with it without running the history walk, the native install or any
\* push, even when useGitHistory and fallbackToNpm are configured.
C26_PullFailureIsFatal ==
    \A p \in Procs :
        PullFailed(p) =>
            /\ pullCalls[p][Len(pullCalls[p])].result = BackendError
            /\ Len(pullCalls[p]) = backendIndex[p] + 1
            /\ pc[p] \in {"catch", "rejected"}
            /\ error[p] = BackendError
            /\ \A e \in pushLog[p] : e.pass # passes[p]
            /\ \A i \in DOMAIN nativeLog[p] : nativeLog[p][i].pass # passes[p]
            /\ (passes[p] = 1 => walkLog[p] = NoWalk)

C26_Witness ==
    \E p \in Procs :
        /\ PullFailed(p) /\ pc[p] = "rejected"
        /\ passes[p] = 1 /\ backendIndex[p] = 0
        /\ config[p].fallbackToNpm /\ config[p].useGitHistory.depth > 0

\* C27 -- a timeout takes part in the chain: when a backend's pull fails
\* with a BackendError (a timeout of an external tool), the pull chain goes
\* on and the next backend of the chain is tried.
C27_TimeoutContinuesChain ==
    \A p \in Procs :
        (/\ pullCalls[p] # <<>>
         /\ pullCalls[p][Len(pullCalls[p])].result = BackendError
         /\ Len(pullCalls[p]) < Len(config[p].backends)) =>
            pc[p] = "pullBackends" /\ backendIndex[p] = Len(pullCalls[p])

\* C28 -- fallback choice after a chain miss outside version control: when
\* the chain reports BundlesNotFound, useGitHistory.depth > 0, the project
\* is not a git repository and fallbackToNpm = true, install goes to the
\* native full install and does not fail with the not-a-git-repo error.
C28_NotAGitRepoFallsBack ==
    \A p \in Procs :
        (walkLog[p].isGitRepo = "no" /\ config[p].fallbackToNpm = TRUE) =>
            /\ ~(pc[p] = "rejected" /\ error[p] = NotAGitRepoError)
            /\ (~Running(p) => NativeCalls(p, "installAll") # {})

\* The history fallback of p has failed: tryOlderBundles has rejected.
HistoryFailed(p) ==
    /\ passes[p] = 1
    /\ walkLog[p].isGitRepo = "yes"
    /\ pc[p] \in {"catch2", "npmInstallAll", "rejected"}
    /\ error[p] \in {BundlesNotFoundError, NpmError, AssertionError, TypeError}

\* C29 -- any failure inside the history fallback falls back to the native
\* install: with fallbackToNpm = true every failure of the history
\* fallback (depth exhaustion, a failing native install or uninstall of the
\* delta, the empty-diff assertion) leads to the native full install; with
\* fallbackToNpm not true it is fatal.
C29_HistoryFailureFallsBack ==
    \A p \in Procs :
        (HistoryFailed(p) /\ pc[p] = "rejected") =>
            IF config[p].fallbackToNpm = TRUE
            THEN NativeCalls(p, "installAll") # {}
            ELSE NativeCalls(p, "installAll") = {}

\* C30 -- the delta installer is never reached with an empty diff: in
\* every execution in which installDiff(old, new) is invoked after a
\* history hit, toInstall or toUninstall is non-empty.
C30_DiffNeverEmpty ==
    \A p \in Procs :
        walkLog[p].diffs # <<>> =>
            LET args == walkLog[p].diffs[1] IN
            \/ DOMAIN toInstall(allDeps(args.oldPkgJson), allDeps(args.newPkgJson)) # {}
            \/ toUninstall(allDeps(args.oldPkgJson), allDeps(args.newPkgJson)) # {}

\* C24 -- git-lfs freshness memoization: within one process, starting from
\* _remoteIsFresh = false with the cache repo already cloned, any sequence
\* of pull calls runs git fetch exactly once, on the first call; later
\* pulls of the process never fetch again.
C24_FetchOnce ==
    (lfsLog.cloned0 /\ lfsLog.pushes = 0) =>
        lfsLog.fetches =
            IF lfsLog.pulls = 0 \/ (lfsLog.pulls = 1 /\ lfsPc = "sync") THEN 0 ELSE 1

C24_Witness ==
    /\ lfsLog.cloned0 /\ lfsLog.pushes = 0
    /\ lfsLog.pulls = MaxLfsCalls /\ lfsPc = "idle"
    /\ lfsLog.fetches = 1

\* C25 -- git-lfs push conflict mapping: if the git tag step or the git
\* push step of the backend's push is rejected with RefAlreadyExistsError,
\* the backend's push rejects with BundleAlreadyExistsError.
C25_PushConflictMapping ==
    (/\ lfsLog.op = "push"
     /\ lfsLog.failedAt \in {"tag", "push"}
     /\ lfsLog.gitError = RefAlreadyExistsError) =>
        lfsPc = "idle" /\ lfsLog.result = BundleAlreadyExistsError

C25_Witness ==
    /\ lfsLog.op = "push" /\ lfsLog.failedAt = "push"
    /\ lfsLog.gitError = RefAlreadyExistsError
    /\ lfsLog.result = BundleAlreadyExistsError

\* The fingerprints whose push conflicted on the first pass of p.
ConflictHashes(p) ==
    {e.hash : e \in {x \in pushLog[p] :
                        x.pass = 1 /\ x.result = BundleAlreadyExistsError}}

\* The first pull of the running pass (the chain install itself runs) and
\* every push of the pass are for the fingerprint whose push conflicted.
PinnedPass(p) ==
    /\ newPkgJsonHash[p] \in ConflictHashes(p)
    /\ (caller[p] = "install" /\ pullCalls[p] # <<>>) =>
           pullCalls[p][1].hash = newPkgJsonHash[p]
    /\ \A e \in pushLog[p] : e.pass = 2 => e.hash = newPkgJsonHash[p]

\* C31 -- pinned second pass: on the rePull pass the probe of the sync
\* tool, the check of node_modules, the read of the manifest and the
\* computation of the fingerprint are skipped (none of what they set
\* changes, none of their callbacks runs), and the first pull and every
\* push of the pass use rePullHash, the fingerprint whose push conflicted
\* on the first pass.
C31_PinnedSecondPass ==
    [][\A p \in Procs : rePull'[p] =>
          /\ rsyncAvailable'[p] = rsyncAvailable[p]
          /\ fsLog'[p] = fsLog[p]
          /\ newPkgJsonHash'[p] = newPkgJsonHash[p]
          /\ pc'[p] \notin {"checkNodeModules", "readPackageFiles"}
          /\ PinnedPass(p)']_vars

C31_Witness ==
    /\ rePull[1] /\ passes[1] = 2 /\ pc[1] = "resolved"
    /\ \E e \in pushLog[1] : e.pass = 2 /\ e.result = "ok"
    /\ pullCalls[1] # <<>>

AllMissed(calls, p) ==
    /\ Len(calls) = Len(config[p].backends)
    /\ \A i \in DOMAIN calls :
          calls[i].hash = newPkgJsonHash[p] /\ calls[i].result = BundleNotFoundError

\* The calls of the native full install in the running pass of p.
InstallAllCalls(p) ==
    {i \in NativeCalls(p, "installAll") : nativeLog[p][i].pass = passes[p]}

\* The native full install of the running pass has failed.
NativeFailed(p) ==
    \E i \in InstallAllCalls(p) : nativeLog[p][i].result = "failed"

\* C33 -- native fallback discipline: in one pass the native full install
\* is called at most once, only with fallbackToNpm = true, only after the
\* chain for the current fingerprint ended in BundlesNotFound and, with
\* useGitHistory.depth > 0, only after the history walk has ended in
\* BundlesNotFound as well; when it fails, install rejects with its error
\* and no push is made.
C33_NativeFallbackDiscipline ==
    [][\A p \in Procs :
          /\ (pc'[p] = "npmInstallAll" /\ pc[p] # "npmInstallAll") =>
                /\ config[p].fallbackToNpm = TRUE
                /\ error[p] = BundlesNotFoundError
                /\ InstallAllCalls(p) = {}
                /\ IF config[p].useGitHistory.depth > 0
                   THEN /\ pc[p] = "catch2"
                        /\ historyIndex[p] > config[p].useGitHistory.depth
                        /\ AllMissed(walkLog[p].chain, p)
                   ELSE /\ pc[p] = "catch"
                        /\ AllMissed(pullCalls[p], p)
          /\ Cardinality(InstallAllCalls(p)') <= 1
          /\ NativeFailed(p)' =>
                /\ pc'[p] = "rejected" /\ error'[p] = NpmError
                /\ \A e \in pushLog'[p] : e.pass # passes'[p]]_vars

C33_Witness ==
    /\ NativeFailed(1) /\ pc[1] = "rejected"
    /\ walkLog[1].budget > 0 /\ walkLog[1].isGitRepo = "yes"

\* C34 -- unparseable older revision: when the manifest or the lockfile of
\* a revision cannot be had or parsed, the walk goes on with the next index
\* and the same lastFingerprint and does not fail; the walk rejects, with
\* BundlesNotFound, only when historyIndex has passed the depth.
C34_BadRevisionIsAMiss ==
    [][\A p \in Procs :
          /\ walkLog'[p].failed = walkLog[p].failed + 1 =>
                /\ pc'[p] = "pullOlderBundle"
                /\ historyIndex'[p] = historyIndex[p] + 1
                /\ newHash'[p] = newHash[p]
                /\ error'[p] = error[p]
                /\ pullCalls'[p] = pullCalls[p]
          /\ (pc[p] = "pullOlderBundle" /\ pc'[p] = "catch2") =>
                /\ historyIndex[p] > config[p].useGitHistory.depth
                /\ error'[p] = BundlesNotFoundError]_vars

C34_Witness ==
    /\ walkLog[1].failed >= 1 /\ walkLog[1].attempts >= 1
    /\ HistoryHit(1)
    /\ history[1] = BadRevision

\* The backends that accepted a push of p's first pass, which then ended
\* in a conflict on another backend.
CommittedBeforeConflict(p) ==
    {e.backend : e \in {x \in pushLog[p] :
        /\ x.pass = 1 /\ x.result = "ok"
        /\ \E c \in pushLog[p] :
              c.pass = 1 /\ c.result = BundleAlreadyExistsError}}

\* C35 -- committed pushes survive a rePull: a backend that accepted the
\* push of the first pass before another backend reported
\* BundleAlreadyExists is not pushed to in the rePull pass, and no backend
\* gets two successful pushes of one fingerprint from one install.
C35_CommittedPushesSurvive ==
    \A p \in Procs :
        /\ \A e \in pushLog[p] :
              e.pass = 2 => e.backend \notin CommittedBeforeConflict(p)
        /\ \A b \in BackendIds, h \in Hashes :
              Cardinality({e \in pushLog[p] :
                  e.backend = b /\ e.hash = h /\ e.result = "ok"}) <= 1

C35_Witness ==
    /\ CommittedBeforeConflict(1) # {}
    /\ passes[1] = 2 /\ pc[1] = "resolved"

\* install has resolved or rejected in every process that has called it.
Settled == \A p \in Procs : pc[p] \in {"idle", "resolved", "rejected"}

\* C36 -- termination: when every external operation settles and the git
\* history of the manifest is finite, every install call resolves or
\* rejects; the history walk ends although it increments
\* useGitHistory.depth for each revision with an unchanged hash (its
\* historyIndex stays within what the finite history allows).
C36_Termination ==
    /\ [](\A p \in Procs : pc[p] = "pullOlderBundle" => historyIndex[p] <= MaxHistoryIndex)
    /\ <>Settled

C36_Witness ==
    /\ Settled /\ pc[1] # "idle"
    /\ walkLog[1].equal >= 2
    /\ config[1].useGitHistory.depth > MaxDepth

\* The chain pullOlderBundle runs for an older hash is running in p.
InWalkChain(p) ==
    caller[p] = "history" /\ pc[p] \in {"pullBackends", "pull", "unpack"}

\* C37 -- the walk fails with BundlesNotFound only: pullOlderBundle
\* rejects with no other error.  Whatever fails at a revision (git, the
\* parse, a backend pull that fails with something else than
\* BundleNotFound, the placing of the tree) is swallowed and the walk goes
\* on with the next index, so a backend error during the walk does not
\* reject install.
C37_WalkFailsWithBundlesNotFoundOnly ==
    [][\A p \in Procs :
          /\ InWalkChain(p) =>
                /\ pc'[p] \in {"pullBackends", "pull", "unpack", "installDiff",
                                "pullOlderBundle"}
                /\ error'[p] = error[p]
                /\ pc'[p] = "pullOlderBundle" =>
                       historyIndex'[p] = historyIndex[p] + 1
          /\ (pc[p] = "pullOlderBundle" /\ pc'[p] # "pullOlderBundle") =>
                \/ pc'[p] = "pullBackends" /\ error'[p] = error[p]
                \/ pc'[p] = "catch2" /\ error'[p] = BundlesNotFoundError]_vars

C37_Witness ==
    /\ pc[1] = "pullOlderBundle" /\ historyIndex[1] = 1
    /\ pullCalls[1] # <<>>
    /\ pullCalls[1][Len(pullCalls[1])].result = BackendError
    /\ pullCalls[1][1].hash # newPkgJsonHash[1]

\* C38 -- config is not modified: when install has settled, on any path,
\* config.useGitHistory.depth and the backend chain are what the caller
\* passed in.
C38_ConfigNotModified ==
    \A p \in Procs :
        pc[p] \in {"resolved", "rejected"} =>
            /\ config[p].useGitHistory.depth = callerConfig[p].useGitHistory.depth
            /\ config[p].backends = callerConfig[p].backends

\* C39 -- the delta installer gets the current manifest: whenever
\* installDiff(old, new) is called, new is the manifest install has parsed
\* from the working directory, also on a rePull pass whose chain for the
\* pinned fingerprint ended in BundlesNotFound and whose history walk has
\* found a bundle.
C39_DeltaGetsCurrentManifest ==
    \A p \in Procs : \A i \in DOMAIN walkLog[p].diffs :
        walkLog[p].diffs[i].newPkgJson = PKGJSON

====
